---- MODULE Spec2Model ----
(***************************************************************************)
(* Model of src/fetch_weather_data.py: the weather pipeline that fetches   *)
(* the current weather of every registry location and appends one row per *)
(* observation to the SQLite table weather_records.                        *)
(*                                                                         *)
(* One action per step of main(): connecting, create_weather_table,        *)
(* fetch_current_weather, the body of the loop (normalisation and          *)
(* store_weather_data), the end of the pass and the finally block.         *)
(* Every except branch of the source is a path of the model: a statement   *)
(* against the store may raise sqlite3.Error, a request may fail.          *)
(*                                                                         *)
(* Conventions.  A nullable value is a set: {} is NULL / NaN / NaT / None  *)
(* and {v} is the value v.  A JSON number is <<"num", n>> with n in tenths *)
(* (215 is 21.5), so that a non-integral weathercode can be told from an   *)
(* integral one; a JSON string that is no number is <<"str", 0>>; a key    *)
(* the object lacks is <<"absent", _>>.  Latitudes and longitudes are the  *)
(* source's, times 10^4.                                                   *)
(***************************************************************************)
EXTENDS Integers, Sequences, FiniteSets, TLC

VARIABLES
    pc,                    \* position in main(): start, create, loop, process, finally, done
    conn,                  \* the sqlite3 connection: "none", "open", "closed"
    i,                     \* index in LOCATIONS of the loop's current location
    records_processed,     \* main()'s counter
    current_weather_data,  \* what fetch_current_weather returned for location i
    log,                   \* what this invocation printed, in order
    tableExists,           \* weather.db holds a table weather_records
    hasPK,                 \* ... created by create_weather_table (constraints)
    rows,                  \* the table's rows, in rowid order
    run,                   \* number of this invocation of the program
    responses,             \* history: the locations fetched and the responses met, in order
    handed,                \* history: the frames handed to store_weather_data
    prevResponses,         \* history: the responses of the previous invocation
    prevFaults,            \* history: a to_sql raised in the previous invocation
    faults,                \* history: a to_sql raised in this invocation
    usedAfterClose         \* history: a statement ran on a closed connection

vars == <<pc, conn, i, records_processed, current_weather_data, log, tableExists,
          hasPK, rows, run, responses, handed, prevResponses, prevFaults, faults,
          usedAfterClose>>

(***************************************************************************)
(* Bounds                                                                  *)
(***************************************************************************)
NumLocations == 3

MaxRuns == 2

(***************************************************************************)
(* Configuration (lines 11-41)                                             *)
(***************************************************************************)
AllLocations ==
    << [latitude |-> 340522, longitude |-> -1182437, timezone |-> "America/Los_Angeles",
        continent |-> "North America", city |-> "Los Angeles"],
       [latitude |-> 407128, longitude |-> -740060, timezone |-> "America/New_York",
        continent |-> "North America", city |-> "New York"],
       [latitude |-> 454215, longitude |-> -756972, timezone |-> "America/Toronto",
        continent |-> "North America", city |-> "Ottawa"],
       [latitude |-> -235505, longitude |-> -466333, timezone |-> "America/Sao_Paulo",
        continent |-> "South America", city |-> "Sao Paulo"],
       [latitude |-> -334489, longitude |-> -706693, timezone |-> "America/Santiago",
        continent |-> "South America", city |-> "Santiago"],
       [latitude |-> 515074, longitude |-> -1278, timezone |-> "Europe/London",
        continent |-> "Europe", city |-> "London"],
       [latitude |-> 488566, longitude |-> 23522, timezone |-> "Europe/Paris",
        continent |-> "Europe", city |-> "Paris"],
       [latitude |-> 525200, longitude |-> 134050, timezone |-> "Europe/Berlin",
        continent |-> "Europe", city |-> "Berlin"],
       [latitude |-> 356895, longitude |-> 1396917, timezone |-> "Asia/Tokyo",
        continent |-> "Asia", city |-> "Tokyo"],
       [latitude |-> 287041, longitude |-> 771025, timezone |-> "Asia/Kolkata",
        continent |-> "Asia", city |-> "New Delhi"],
       [latitude |-> 399042, longitude |-> 1164074, timezone |-> "Asia/Shanghai",
        continent |-> "Asia", city |-> "Beijing"],
       [latitude |-> -262041, longitude |-> 280473, timezone |-> "Africa/Johannesburg",
        continent |-> "Africa", city |-> "Johannesburg"],
       [latitude |-> 300444, longitude |-> 312357, timezone |-> "Africa/Cairo",
        continent |-> "Africa", city |-> "Cairo"],
       [latitude |-> -338688, longitude |-> 1512093, timezone |-> "Australia/Sydney",
        continent |-> "Australia", city |-> "Sydney"],
       [latitude |-> -368485, longitude |-> 1747633, timezone |-> "Pacific/Auckland",
        continent |-> "Australia", city |-> "Auckland"] >>

\* The registry the loop walks: the first NumLocations entries of the source's list.
LOCATIONS == SubSeq(AllLocations, 1, NumLocations)

(***************************************************************************)
(* API responses: the inputs                                               *)
(***************************************************************************)
Absent == <<"absent", 0>>

NoTimeKey == <<"absent", "">>

\* A current_weather object of the API with the four keys main() reads.
CurrentWeather(t, temp, wind, code) ==
    [time |-> t, temperature |-> temp, windspeed |-> wind, weathercode |-> code]

EmptyObject == CurrentWeather(NoTimeKey, Absent, Absent, Absent)

\* 12:00, 21.5 degrees, code 3.
ObsNoon == CurrentWeather(<<"str", "2024-01-01T12:00">>, <<"num", 215>>, <<"num", 52>>, <<"num", 30>>)

\* The same second written with a fraction, another temperature.
ObsNoonHalf == CurrentWeather(<<"str", "2024-01-01T12:00:00.5">>, <<"num", 220>>, <<"num", 52>>, <<"num", 30>>)

ObsBadTime == CurrentWeather(<<"str", "not-a-time">>, <<"num", 215>>, <<"num", 52>>, <<"num", 30>>)

ObsFracCode == CurrentWeather(<<"str", "2024-01-01T12:00">>, <<"num", 215>>, <<"num", 52>>, <<"num", 35>>)

ObsNoTime == CurrentWeather(NoTimeKey, <<"num", 215>>, <<"num", 52>>, <<"num", 30>>)

ObsNoTemperature == CurrentWeather(<<"str", "2024-01-01T12:00">>, Absent, <<"num", 52>>, <<"num", 30>>)

ObsNoWindspeed == CurrentWeather(<<"str", "2024-01-01T12:00">>, <<"num", 215>>, Absent, <<"num", 30>>)

ObsNoWeathercode == CurrentWeather(<<"str", "2024-01-01T12:00">>, <<"num", 215>>, <<"num", 52>>, Absent)

\* A response: what requests.get met.  kind is
\*   "transport"   no HTTP response (connection refused, timeout, DNS)
\*   "http_error"  a 4xx/5xx status
\*   "bad_json"    2xx with a body that is no JSON
\*   "no_field"    2xx, a JSON object without the key current_weather
\*   "falsy"       2xx, current_weather is {} or null
\*   "nondict"     2xx, current_weather is a non-empty string or list
\*   "object"      2xx, current_weather is the object cw
Response(kind, cw) == [kind |-> kind, cw |-> cw]

Observed(cw) == Response("object", cw)

PartialObservations == {ObsNoTime, ObsNoTemperature, ObsNoWindspeed, ObsNoWeathercode}

Responses ==
    {Response(k, EmptyObject) : k \in {"transport", "http_error", "bad_json", "no_field", "falsy", "nondict"}}
    \cup {Observed(cw) : cw \in PartialObservations \cup {ObsNoon, ObsBadTime, ObsFracCode}}

\* The inputs of the specification of repeated invocations.
RerunResponses ==
    {Response("http_error", EmptyObject)}
    \cup {Observed(cw) : cw \in {ObsNoon, ObsNoonHalf, ObsBadTime, ObsNoTime}}

\* What a statement against the store may raise.
StorageFaults == {"sqlite3.Error", "Exception"}

RerunStorageFaults == {"sqlite3.Error"}

(***************************************************************************)
(* fetch_current_weather (lines 43-71)                                     *)
(***************************************************************************)
None == [kind |-> "None", cw |-> EmptyObject]

Returned(value, printed) == [raised |-> FALSE, value |-> value, printed |-> printed]

\* A faulty variant of MissingKeyPrinted: the missing key goes unreported.
MissingKeySilent == <<>>

\* Line 63: the warning for a body without the key current_weather.
MissingKeyPrinted == <<"WarningKeyNotFound">>

\* requests.get, raise_for_status, response.json() and the look-up of the key.
\* A body that is no JSON raises requests.exceptions.JSONDecodeError, which is
\* a RequestException from requests 2.27 on (jsonErrorIsRequestException) and
\* a plain ValueError, which no except clause of the function catches, before.
FetchCurrentWeather(resp, jsonErrorIsRequestException) ==
    CASE resp.kind = "transport" -> Returned(None, <<"ApiRequestError">>)
      [] resp.kind = "http_error" -> Returned(None, <<"ApiHttpError">>)
      [] resp.kind = "bad_json" ->
            IF jsonErrorIsRequestException
            THEN Returned(None, <<"ApiRequestError">>)
            ELSE [raised |-> TRUE, value |-> None, printed |-> <<>>]
      [] resp.kind = "no_field" -> Returned(None, MissingKeyPrinted)
      [] resp.kind = "falsy" -> Returned([kind |-> "falsy", cw |-> EmptyObject], <<>>)
      [] resp.kind = "nondict" -> Returned([kind |-> "nondict", cw |-> EmptyObject], <<>>)
      [] OTHER -> Returned([kind |-> "dict", cw |-> resp.cw], <<>>)

(***************************************************************************)
(* The normalisation of main() (lines 138-157)                             *)
(***************************************************************************)
\* `if current_weather_data:` (line 138): None and the empty object are falsy.
Truthy(value) == value.kind \in {"nondict", "dict"}

\* pd.to_datetime(..., errors='coerce') (line 148): the parsed time, as
\* <<date, second of the day, microsecond>>, or NaT.
PdToDatetime(v) ==
    CASE v = <<"str", "2024-01-01T12:00">> -> {<<"2024-01-01", 43200, 0>>}
      [] v = <<"str", "2024-01-01T12:00:00.5">> -> {<<"2024-01-01", 43200, 500000>>}
      [] v = <<"str", "2024-01-01T13:00">> -> {<<"2024-01-01", 46800, 0>>}
      [] OTHER -> {}

\* pd.to_numeric(..., errors='coerce') (lines 149-151): the number, or NaN.
PdToNumeric(v) == IF v[1] = "num" THEN {v[2]} ELSE {}

\* .astype('Int64') (line 151) casts NaN to <NA> and an integral float to its
\* integer; it raises TypeError on a float with a fraction.
AsTypeInt64Raises(x) == \E n \in x : n % 10 # 0

AsTypeInt64(x) == {n \div 10 : n \in x}

\* Lines 139-151 raise: item assignment on a value that is no dict (139), a
\* column the frame lacks (KeyError, 148-151), a non-integral weathercode (151).
NormalizeRaises(value) ==
    \/ value.kind = "nondict"
    \/ value.cw.time[1] = "absent"
    \/ value.cw.temperature[1] = "absent"
    \/ value.cw.windspeed[1] = "absent"
    \/ value.cw.weathercode[1] = "absent"
    \/ AsTypeInt64Raises(PdToNumeric(value.cw.weathercode))

\* df_to_store (lines 139-157) for the object cw of location loc at time now.
Normalize(cw, loc, now) ==
    [timestamp |-> PdToDatetime(cw.time),
     temperature_celsius |-> PdToNumeric(cw.temperature),
     windspeed_ms |-> PdToNumeric(cw.windspeed),
     weather_code |-> AsTypeInt64(PdToNumeric(cw.weathercode)),
     latitude |-> loc.latitude,
     longitude |-> loc.longitude,
     timezone |-> loc.timezone,
     continent |-> loc.continent,
     city |-> loc.city,
     ingestion_timestamp |-> now]

(***************************************************************************)
(* store_weather_data (lines 101-121) and the table (lines 78-92)          *)
(***************************************************************************)
\* .dt.strftime('%Y-%m-%dT%H:%M:%S') (line 110): the text of a time, to the
\* second, as <<date, hour, minute, second>>; NaT becomes NaN.
Strftime(ts) ==
    {<<t[1], t[2] \div 3600, (t[2] % 3600) \div 60, t[2] % 60>> : t \in ts}

\* The frame as to_sql writes it (lines 109-113); NaN is written as NULL.
\* The ingestion time keeps its microseconds under '%Y-%m-%dT%H:%M:%S.%f'.
Formatted(frame) == [frame EXCEPT !.timestamp = Strftime(frame.timestamp)]

\* PRIMARY KEY (timestamp, latitude, longitude) (line 90).
PrimaryKey(row) == <<row.timestamp, row.latitude, row.longitude>>

\* timestamp TEXT NOT NULL (line 80); latitude and longitude are never NULL.
ViolatesNotNull(row) == row.timestamp = {}

ViolatesPrimaryKey(row, stored) ==
    \E k \in 1..Len(stored) : PrimaryKey(stored[k]) = PrimaryKey(row)

\* data_frame.to_sql('weather_records', conn, if_exists='append') (line 115):
\* the exception it ends with ("none": it returns) and the store it leaves.
\* With no table weather_records in the file, pandas creates one from the
\* frame's columns, which carries neither NOT NULL nor a primary key.
ToSql(row, exists, pk, stored, fault) ==
    CASE fault # "none" ->
            [raised |-> fault, exists |-> exists, pk |-> pk, rows |-> stored]
      [] fault = "none" /\ ~exists ->
            [raised |-> "none", exists |-> TRUE, pk |-> FALSE, rows |-> <<row>>]
      [] fault = "none" /\ exists /\ pk
           /\ (ViolatesNotNull(row) \/ ViolatesPrimaryKey(row, stored)) ->
            [raised |-> "sqlite3.IntegrityError", exists |-> exists, pk |-> pk, rows |-> stored]
      [] OTHER ->
            [raised |-> "none", exists |-> exists, pk |-> pk, rows |-> Append(stored, row)]

\* What store_weather_data prints for the exception to_sql ended with
\* (lines 116-121): nothing for an IntegrityError.
StorePrinted(raised) ==
    CASE raised = "sqlite3.Error" -> <<"ErrorStoringData">>
      [] raised = "Exception" -> <<"UnexpectedStorageError">>
      [] OTHER -> <<>>

\* store_weather_data(frame, conn): the store it leaves and what it prints.
\* The frame of main() has one row, so the empty-frame return (line 105)
\* is never taken.
StoreWeatherData(frame, exists, pk, stored, fault) ==
    LET r == ToSql(Formatted(frame), exists, pk, stored, fault)
    IN  [exists |-> r.exists, pk |-> r.pk, rows |-> r.rows,
         raised |-> r.raised, printed |-> StorePrinted(r.raised)]

(***************************************************************************)
(* The log: the lines the program prints                                   *)
(***************************************************************************)
Entry(kind, loc, n) == [kind |-> kind, loc |-> loc, n |-> n]

\* The entries for the printed kinds, all about location loc.
Entries(printed, loc) == [k \in 1..Len(printed) |-> Entry(printed[k], loc, 0)]

(***************************************************************************)
(* main() (lines 124-171)                                                  *)
(***************************************************************************)
\* datetime.datetime.now(utc) (line 139) while invocation r handles location
\* k: later invocations and later locations read later times.
Now(r, k) == <<r, k>>

\* A faulty variant of LoopLocation: the labels of the first location are reused.
FirstLocation(k) == LOCATIONS[1]

\* `for loc in LOCATIONS` (line 133): loc in the k-th iteration.
LoopLocation(k) == LOCATIONS[k]

\* A faulty variant of NextLocation: a location whose fetch returned nothing
\* is fetched a second time.
RetryOnce(k) ==
    IF ~Truthy(current_weather_data)
          /\ Cardinality({j \in 1..Len(responses) : responses[j].loc = k}) < 2
    THEN k ELSE k + 1

\* `for loc in LOCATIONS` (line 133): the location after location k.
NextLocation(k) == k + 1

\* A faulty variant of CountRecord: only stored rows are counted.
CountStored(n, raised) == IF raised = "none" THEN n + 1 ELSE n

\* records_processed += 1 (line 160), whatever to_sql ended with.
CountRecord(n, raised) == n + 1

\* A faulty variant of CloseConnection: the finally block closes nothing.
LeaveOpen(c) == c

\* `if conn: conn.close()` (lines 169-170).
CloseConnection(c) == IF c = "open" THEN "closed" ELSE c

\* A statement runs on the connection (history).
Uses(c) == usedAfterClose \/ c = "closed"

\* Lines 125-129: sqlite3.connect opens weather.db, or raises, which the
\* except clause of main() prints (line 167).
MainConnect ==
    /\ pc = "start"
    /\ \/ /\ conn' = "open"
          /\ pc' = "create"
          /\ log' = Append(log, Entry("Start", 0, 0))
       \/ /\ conn' = conn
          /\ pc' = "finally"
          /\ log' = log \o <<Entry("Start", 0, 0), Entry("PipelineError", 0, 0)>>
    /\ UNCHANGED <<i, records_processed, current_weather_data, tableExists, hasPK,
                   rows, run, responses, handed, prevResponses, prevFaults, faults,
                   usedAfterClose>>

\* create_weather_table(conn) (lines 73-99) and line 132.  CREATE TABLE IF NOT
\* EXISTS leaves an existing table as it is; a sqlite3.Error is printed and
\* main() goes on.
MainCreateTable(raises) ==
    /\ pc = "create"
    /\ IF raises
       THEN /\ log' = Append(log, Entry("ErrorCreatingTable", 0, 0))
            /\ UNCHANGED <<tableExists, hasPK>>
       ELSE /\ log' = Append(log, Entry("TableProcessed", 0, 0))
            /\ tableExists' = TRUE
            /\ hasPK' = IF tableExists THEN hasPK ELSE TRUE
    /\ usedAfterClose' = Uses(conn)
    /\ records_processed' = 0
    /\ i' = 1
    /\ pc' = "loop"
    /\ UNCHANGED <<conn, current_weather_data, rows, run, responses, handed,
                   prevResponses, prevFaults, faults>>

\* Lines 133-136: the fetch of location i, which meets response resp.
MainFetch(resp, jsonErrorIsRequestException) ==
    /\ pc = "loop"
    /\ i <= NumLocations
    /\ LET r == FetchCurrentWeather(resp, jsonErrorIsRequestException)
       IN  /\ responses' = Append(responses, [loc |-> i, resp |-> resp])
           /\ IF r.raised
              THEN /\ log' = Append(log, Entry("PipelineError", i, 0))
                   /\ pc' = "finally"
                   /\ UNCHANGED current_weather_data
              ELSE /\ log' = log \o Entries(r.printed, i)
                   /\ pc' = "process"
                   /\ current_weather_data' = r.value
    /\ UNCHANGED <<conn, i, records_processed, tableExists, hasPK, rows, run, handed,
                   prevResponses, prevFaults, faults, usedAfterClose>>

\* Lines 138-162: the body of the loop for what the fetch returned.  fault is
\* what to_sql raises of its own ("none": the statement runs).
MainProcess(fault) ==
    /\ pc = "process"
    /\ IF ~Truthy(current_weather_data)
       THEN /\ log' = Append(log, Entry("Skipping", i, 0))
            /\ i' = NextLocation(i)
            /\ pc' = "loop"
            /\ UNCHANGED <<records_processed, tableExists, hasPK, rows, handed,
                           faults, usedAfterClose>>
       ELSE IF NormalizeRaises(current_weather_data)
       THEN /\ log' = Append(log, Entry("PipelineError", i, 0))
            /\ pc' = "finally"
            /\ UNCHANGED <<i, records_processed, tableExists, hasPK, rows, handed,
                           faults, usedAfterClose>>
       ELSE LET frame == Normalize(current_weather_data.cw, LoopLocation(i), Now(run, i))
                s == StoreWeatherData(frame, tableExists, hasPK, rows, fault)
            IN  /\ handed' = Append(handed, [loc |-> i, frame |-> frame])
                /\ tableExists' = s.exists
                /\ hasPK' = s.pk
                /\ rows' = s.rows
                /\ log' = log \o Entries(s.printed, i)
                /\ faults' = (faults \/ fault # "none")
                /\ usedAfterClose' = Uses(conn)
                /\ records_processed' = CountRecord(records_processed, s.raised)
                /\ i' = NextLocation(i)
                /\ pc' = "loop"
    /\ current_weather_data' = None
    /\ UNCHANGED <<conn, run, responses, prevResponses, prevFaults>>

\* Line 164: the pass is over; the total is printed.
MainFinishPass ==
    /\ pc = "loop"
    /\ i > NumLocations
    /\ log' = Append(log, Entry("Finished", 0, records_processed))
    /\ pc' = "finally"
    /\ UNCHANGED <<conn, i, records_processed, current_weather_data, tableExists,
                   hasPK, rows, run, responses, handed, prevResponses, prevFaults,
                   faults, usedAfterClose>>

\* Lines 168-171: the finally block; the process exits.
MainFinally ==
    /\ pc = "finally"
    /\ conn' = CloseConnection(conn)
    /\ log' = IF conn' # conn THEN Append(log, Entry("ConnectionClosed", 0, 0)) ELSE log
    /\ pc' = "done"
    /\ UNCHANGED <<i, records_processed, current_weather_data, tableExists, hasPK,
                   rows, run, responses, handed, prevResponses, prevFaults, faults,
                   usedAfterClose>>

\* The program is started again on the same weather.db (lines 173-174).
NewInvocation ==
    /\ pc = "done"
    /\ run < MaxRuns
    /\ run' = run + 1
    /\ pc' = "start"
    /\ conn' = "none"
    /\ i' = 0
    /\ records_processed' = 0
    /\ current_weather_data' = None
    /\ log' = <<>>
    /\ prevResponses' = responses
    /\ prevFaults' = faults
    /\ responses' = <<>>
    /\ handed' = <<>>
    /\ faults' = FALSE
    /\ UNCHANGED <<tableExists, hasPK, rows, usedAfterClose>>

(***************************************************************************)
(* Specifications                                                          *)
(***************************************************************************)
\* What an earlier invocation in which every location reported ObsNoon, and
\* every statement ran, left in the table.
PriorRows ==
    [k \in 1..NumLocations |-> Formatted(Normalize(ObsNoon, LOCATIONS[k], Now(0, k)))]

InitProcess ==
    /\ pc = "start"
    /\ conn = "none"
    /\ i = 0
    /\ records_processed = 0
    /\ current_weather_data = None
    /\ log = <<>>
    /\ run = 1
    /\ responses = <<>>
    /\ handed = <<>>
    /\ prevResponses = <<>>
    /\ prevFaults = FALSE
    /\ faults = FALSE
    /\ usedAfterClose = FALSE

\* No weather.db yet.
InitFresh ==
    /\ InitProcess
    /\ tableExists = FALSE
    /\ hasPK = FALSE
    /\ rows = <<>>

\* One invocation, on a fresh weather.db or on the one an earlier invocation left.
Init ==
    \/ InitFresh
    \/ /\ InitProcess
       /\ tableExists = TRUE
       /\ hasPK = TRUE
       /\ rows = PriorRows

Next ==
    \/ MainConnect
    \/ \E raises \in BOOLEAN : MainCreateTable(raises)
    \/ \E resp \in Responses, c \in BOOLEAN : MainFetch(resp, c)
    \/ \E fault \in {"none"} \cup StorageFaults : MainProcess(fault)
    \/ MainFinishPass
    \/ MainFinally

Spec == Init /\ [][Next]_vars

\* The program is sequential and every step of it ends: the request has a
\* timeout (line 56), the pause is fixed (line 136), sqlite3 gives up on a lock.
FairSpec == Spec /\ WF_vars(Next)

\* Repeated invocations on one weather.db, from a fresh one.
RunsNext ==
    \/ MainConnect
    \/ \E raises \in BOOLEAN : MainCreateTable(raises)
    \/ \E resp \in RerunResponses : MainFetch(resp, TRUE)
    \/ \E fault \in {"none"} \cup RerunStorageFaults : MainProcess(fault)
    \/ MainFinishPass
    \/ MainFinally
    \/ NewInvocation

RunsSpec == InitFresh /\ [][RunsNext]_vars

(***************************************************************************)
(* Vocabulary of the properties                                            *)
(***************************************************************************)
\* The levels of the printed lines: line 63 says "Warning", section 4.4 of
\* the specification calls the skip notice of line 162 a logged warning; the
\* lines 67, 70, 99, 119, 121 and 167 report errors.
IsWarning(e) == e.kind \in {"WarningKeyNotFound", "Skipping"}

IsError(e) ==
    e.kind \in {"ApiHttpError", "ApiRequestError", "ErrorCreatingTable",
                "ErrorStoringData", "UnexpectedStorageError", "PipelineError"}

\* The lines this invocation printed about location k, in order.
KindsFor(k) ==
    LET about == SelectSeq(log, LAMBDA e : e.loc = k)
    IN  [j \in 1..Len(about) |-> about[j].kind]

CountFor(k, Level(_)) ==
    Cardinality({j \in 1..Len(log) : log[j].loc = k /\ Level(log[j])})

\* The rows of location k in the table, and those this invocation added.
RowsOf(k) ==
    {j \in 1..Len(rows) : /\ rows[j].latitude = LOCATIONS[k].latitude
                          /\ rows[j].longitude = LOCATIONS[k].longitude}

AddedRows(k) == {j \in RowsOf(k) : rows[j].ingestion_timestamp[1] = run}

\* Location k was fetched, and the loop is through with it.
Fetched(k) == \E j \in 1..Len(responses) : responses[j].loc = k

Handled(k) == Fetched(k) /\ (k < i \/ pc \in {"finally", "done"})

ResponseOf(k) == (CHOOSE r \in {responses[j] : j \in 1..Len(responses)} : r.loc = k).resp

\* The frames handed to store_weather_data for location k.
HandedFor(k) == {j \in 1..Len(handed) : handed[j].loc = k}

\* A response with the object the API documents: the four keys, a time that
\* parses, numbers, an integral weathercode.
WellFormed(resp) ==
    /\ resp.kind = "object"
    /\ PdToDatetime(resp.cw.time) # {}
    /\ resp.cw.temperature[1] = "num"
    /\ resp.cw.windspeed[1] = "num"
    /\ resp.cw.weathercode[1] = "num"
    /\ resp.cw.weathercode[2] % 10 = 0

\* A 2xx response that is malformed or partial: no JSON, a current_weather
\* that is no object, an object lacking a key or with a non-integral code.
Malformed(resp) ==
    \/ resp.kind \in {"bad_json", "nondict"}
    \/ /\ resp.kind = "object"
       /\ \/ resp.cw \in PartialObservations
          \/ resp.cw = ObsFracCode

\* The fetch of location k returned an observation and a record was made of it.
Produced(resp) ==
    /\ resp.kind = "object"
    /\ ~NormalizeRaises([kind |-> "dict", cw |-> resp.cw])

NumProduced == Cardinality({k \in 1..NumLocations : Handled(k) /\ Produced(ResponseOf(k))})

Aborted == \E j \in 1..Len(log) : log[j].kind = "PipelineError"

(***************************************************************************)
(* Properties                                                              *)
(***************************************************************************)
\* C1: the table never holds two rows with the same (timestamp, latitude,
\* longitude), after any sequence of invocations and appends.
C1_PrimaryKeyUnique ==
    \A a, b \in 1..Len(rows) : a # b => PrimaryKey(rows[a]) # PrimaryKey(rows[b])

\* C2: when the second invocation met, at every location, the well-formed
\* response the first one met, and no append raised a storage error, the table
\* holds exactly one row per location, the second invocation added none,
\* printed nothing about a location and was not aborted.
C2_RerunAddsNothing ==
    ( /\ run = 2
      /\ pc = "done"
      /\ Len(responses) = NumLocations
      /\ responses = prevResponses
      /\ \A k \in 1..NumLocations : WellFormed(responses[k].resp)
      /\ ~faults /\ ~prevFaults )
    => /\ \A k \in 1..NumLocations :
             /\ Cardinality(RowsOf(k)) = 1
             /\ AddedRows(k) = {}
             /\ KindsFor(k) = <<>>
       /\ ~Aborted

\* C3: a location whose request ends in an HTTP error status adds no row and
\* prints one error line, and every location after it is fetched and handled
\* in the same invocation.
C3_HttpErrorSkipsOnlyThatLocation ==
    \A k \in 1..NumLocations :
        (Handled(k) /\ ResponseOf(k).kind = "http_error")
        => /\ AddedRows(k) = {}
           /\ CountFor(k, IsError) = 1
           /\ pc = "done" => \A j \in (k + 1)..NumLocations : Handled(j)

\* C4, as stated: a location whose 2xx response lacks current_weather adds no
\* row and prints exactly one warning line.
C4_OneWarningLine ==
    \A k \in 1..NumLocations :
        (Handled(k) /\ ResponseOf(k).kind = "no_field")
        => /\ AddedRows(k) = {}
           /\ CountFor(k, IsWarning) = 1

\* C4, amended: such a location adds no row and prints two lines, the warning
\* of the fetch (line 63) and then the skip notice of the loop (line 162).
C4_WarningThenSkipNotice ==
    \A k \in 1..NumLocations :
        (Handled(k) /\ ResponseOf(k).kind = "no_field")
        => /\ AddedRows(k) = {}
           /\ HandedFor(k) = {}
           /\ KindsFor(k) = <<"WarningKeyNotFound", "Skipping">>

C4_Witness ==
    /\ pc = "done"
    /\ ~Aborted
    /\ \E k \in 1..NumLocations : Handled(k) /\ ResponseOf(k).kind = "no_field"

\* C5: a malformed or partial response is never fatal: the invocation prints
\* no pipeline error because of that location, and it fetches every location.
C5_MalformedResponseNotFatal ==
    \A k \in 1..NumLocations :
        (Handled(k) /\ Malformed(ResponseOf(k)))
        => /\ \A j \in 1..Len(log) : ~(log[j].kind = "PipelineError" /\ log[j].loc = k)
           /\ pc = "done" => \A j \in 1..NumLocations : Fetched(j)

\* C6: records_processed counts the locations handled so far whose fetch
\* returned an observation of which a record was made, whether or not the
\* append stored a row, and no skipped location; the total printed at the
\* end of a pass is that number over the whole registry.
C6_TotalCountsProducedRecords ==
    /\ records_processed = NumProduced
    /\ \A j \in 1..Len(log) :
          log[j].kind = "Finished"
          => /\ log[j].n = NumProduced
             /\ \A k \in 1..NumLocations : Handled(k)

\* A pass that ended with a total above the rows added: one record was
\* suppressed as a duplicate, one dropped on a storage error, one location
\* was skipped.
C6_Witness ==
    /\ pc = "done"
    /\ \E j \in 1..Len(log) : log[j].kind = "Finished" /\ log[j].n = 2
    /\ \A k \in 1..NumLocations : AddedRows(k) = {}
    /\ \E k \in 1..NumLocations : KindsFor(k) = <<"ErrorStoringData">>
    /\ \E k \in 1..NumLocations : WellFormed(ResponseOf(k)) /\ KindsFor(k) = <<>>
    /\ \E k \in 1..NumLocations : KindsFor(k) = <<"ApiHttpError", "Skipping">>

\* C7: for every location whose response is well-formed, exactly one frame is
\* handed to store_weather_data, with the coordinates, timezone, continent and
\* city of that location; no frame carries the labels of another location.
C7_OneRecordWithOwnLabels ==
    /\ \A k \in 1..NumLocations :
          (Handled(k) /\ WellFormed(ResponseOf(k))) => Cardinality(HandedFor(k)) = 1
    /\ \A j \in 1..Len(handed) :
          LET f == handed[j].frame
              loc == LOCATIONS[handed[j].loc]
          IN  /\ f.latitude = loc.latitude
              /\ f.longitude = loc.longitude
              /\ f.timezone = loc.timezone
              /\ f.continent = loc.continent
              /\ f.city = loc.city
              /\ f.ingestion_timestamp = Now(run, handed[j].loc)

C7_Witness ==
    /\ pc = "done"
    /\ \A k \in 1..NumLocations : Handled(k) /\ WellFormed(ResponseOf(k))
    /\ Len(handed) = NumLocations

\* C8: once the connection is open it is eventually closed, on the normal
\* path and on every exception path; the process never exits with it open,
\* and no statement runs on it after the close.
C8_ConnectionClosed ==
    /\ [](conn = "open" => <>(conn = "closed"))
    /\ [](pc = "done" => conn # "open")
    /\ [](~usedAfterClose)

\* An invocation that an exception in the loop aborted, with the connection closed.
C8_Witness ==
    /\ pc = "done"
    /\ conn = "closed"
    /\ \E j \in 1..Len(log) : log[j].kind = "PipelineError" /\ log[j].loc > 0

\* C9: the locations are fetched in registry order, each at most once whatever
\* its fetch or its append ended with, and every invocation ends.
C9_SinglePassInOrder ==
    /\ [](\A k \in 1..Len(responses) : responses[k].loc = k)
    /\ [](Len(responses) <= NumLocations)
    /\ <>(pc = "done")

\* A full pass in which a request failed over HTTP, one at the transport, one
\* append raised: each location was fetched once.
C9_Witness ==
    /\ pc = "done"
    /\ Len(responses) = NumLocations
    /\ faults
    /\ \E k \in 1..NumLocations : responses[k].resp.kind = "http_error"
    /\ \E k \in 1..NumLocations : responses[k].resp.kind = "transport"

\* C10: a record with a null timestamp is never stored: no row of the table
\* has a NULL timestamp, and a location whose time does not parse adds no row
\* and prints nothing, is counted, and the loop goes on.
C10_NoNullTimestampStored ==
    /\ \A j \in 1..Len(rows) : rows[j].timestamp # {}
    /\ \A k \in 1..NumLocations :
          (Handled(k) /\ ResponseOf(k) = Observed(ObsBadTime) /\ ~faults)
          => /\ AddedRows(k) = {}
             /\ KindsFor(k) = <<>>
             /\ Cardinality(HandedFor(k)) = 1

====
